---- MODULE Spec2Model ----
(***************************************************************************)
(* Model of CompressionWebSocket (frontend/lib/websocket.ts): a            *)
(* reconnecting WebSocket client.  One client instance is modelled,        *)
(* together with the transport handles it creates, the timers it           *)
(* schedules and the handlers registered on it.  Every transport event is  *)
(* one action that runs the whole callback the client attached to the      *)
(* handle.                                                                 *)
(***************************************************************************)
EXTENDS Integers, Sequences, FiniteSets, TLC

\* ---------------------------------------------------------------- bounds
\* Number of transport handles one behaviour may create.
MaxSockets == 7
\* Number of handler registrations one behaviour may make.
MaxHandlers == 3

\* clients the monitor component constructs
MaxClients == 4

\* samples and result requests the monitor holds at a time
MaxSamples == 2

\* entries of the job history at which entries are updated and removed
MaxEdited == 2

\* ------------------------------------------------------ program constants
maxReconnectAttempts == 5
reconnectDelay == 1000

\* entries addJobToHistory keeps
HistoryLimit == 50

VARIABLES
    ws,                 \* this.ws: index of a handle in sockets, 0 for null
    sockets,            \* readyState of every handle created, in creation order
    messageHandlers,    \* this.messageHandlers
    errorHandlers,      \* this.errorHandlers
    openHandlers,       \* this.openHandlers
    closeHandlers,      \* this.closeHandlers
    reconnectAttempts,  \* this.reconnectAttempts
    isManuallyClosed,   \* this.isManuallyClosed
    timers,             \* delays of the pending setTimeout callbacks
    last,               \* history: what the last step did
    everOpened,         \* history: some handle has delivered an open event
    closesSinceOpen,    \* history: non-manual close events since the last open
    closeEvents,        \* history: number of runs of an onclose callback
    fromStart,          \* history: ids of the close handlers registered before
                        \* the first close event
    closeInvoked,       \* history: id in fromStart -> times it was invoked
    attemptsSinceOpen,  \* history: connection attempts made since, and
                        \* with, the attempt that last opened (or since
                        \* construction)
    written,            \* frames passed to ws.send of a handle, in order
    sent,               \* history: payloads passed to send() so far
    refused,            \* history: payloads passed to send() while the
                        \* connection was not open, with the number of
                        \* handles created at the time of the call
    failureCalls,       \* history: ids of the error handlers the catch block
                        \* of connect() has invoked
    env,                \* process.env.NEXT_PUBLIC_WS_URL, <<>> when not set
    jobId,              \* this.jobId
    targets,            \* history: the url of every connection attempt
    currentJob,         \* monitor: the currentJob state
    wsRef,              \* monitor: wsRef.current, 0 for null, else an index
                        \* into clients
    clients,            \* monitor: the clients it has constructed
    effectJob,          \* monitor: currentJob as of the effect's last run
    hasCleanup,         \* monitor: the effect's last run returned a cleanup
    mounted,            \* monitor: the component is mounted
    view,               \* monitor: the state slices the handlers write
    event,              \* history: the last step of the monitor
    jobHistory,         \* store: the array kept under qcompress_job_history
    storeLast           \* history: the last call on the store

clientVars == <<ws, sockets, messageHandlers, errorHandlers, openHandlers,
                closeHandlers, reconnectAttempts, isManuallyClosed, timers,
                last, everOpened, closesSinceOpen, closeEvents, fromStart,
                closeInvoked, attemptsSinceOpen>>

sendLog == <<written, sent, refused>>

addressVars == <<env, jobId, targets>>

monitorVars == <<currentJob, wsRef, clients, effectJob, hasCleanup, mounted,
                 view, event>>

storeVars == <<jobHistory, storeLast>>

vars == <<clientVars, sendLog, failureCalls, addressVars, monitorVars, storeVars>>

handlerVars == <<messageHandlers, errorHandlers, openHandlers, closeHandlers>>

closeLog == <<closeEvents, fromStart, closeInvoked>>

\* ------------------------------------------------------------- helpers
RECURSIVE Pow2(_)
\* Math.pow(2, n) for the non-negative integers the client passes
Pow2(n) == IF n <= 0 THEN 1 ELSE 2 * Pow2(n - 1)

\* Variant of Backoff: the delay grows linearly with the attempt number.
BackoffLinear(n) == reconnectDelay * n

\* delay of the retry scheduled when reconnectAttempts has just become n
Backoff(n) == reconnectDelay * Pow2(n - 1)

\* A handler is a callback value: id is its identity, raises says whether
\* calling it throws.
Handler(i, r) == [id |-> i, raises |-> r]

RECURSIVE ForEachReversed(_)
\* Variant of ForEach: the list is walked from its last handler to its first.
ForEachReversed(hs) ==
    IF hs = <<>> THEN [calls |-> <<>>, threw |-> FALSE]
    ELSE LET n == Len(hs)
         IN  IF hs[n].raises
             THEN [calls |-> <<hs[n].id>>, threw |-> TRUE]
             ELSE LET rest == ForEachReversed(SubSeq(hs, 1, n - 1))
                  IN  [calls |-> <<hs[n].id>> \o rest.calls, threw |-> rest.threw]

RECURSIVE ForEach(_)
\* Array.prototype.forEach over a handler list: the handlers are called in
\* index order; a handler that throws ends the iteration and the exception
\* propagates.  Result: the ids called, and whether an exception came out.
ForEach(hs) ==
    IF hs = <<>> THEN [calls |-> <<>>, threw |-> FALSE]
    ELSE IF Head(hs).raises
         THEN [calls |-> <<Head(hs).id>>, threw |-> TRUE]
         ELSE LET rest == ForEach(Tail(hs))
              IN  [calls |-> <<Head(hs).id>> \o rest.calls, threw |-> rest.threw]

\* ids of a handler list, in list order
RECURSIVE Ids(_)
Ids(hs) == IF hs = <<>> THEN <<>> ELSE <<Head(hs).id>> \o Ids(Tail(hs))

\* number of handlers registered so far, over the four lists
Registered ==
    Len(messageHandlers) + Len(errorHandlers) + Len(openHandlers) + Len(closeHandlers)

\* ------------------------------------------------------ inbound frames
\* A frame is the text of event.data, as a sequence of JSON tokens.
Scalars == {"42", "null"}
\* the values of the type member of a WebSocketMessage
TypeNames == {"metrics", "status", "error", "complete"}
Frames ==
    { <<"{", "type", ":", "status", "}">>,
      <<"{", "type", ":", "bogus", "}">>,
      <<"{", "}">>,
      <<"null">>,
      <<"{", "type", ":", "status">> }

\* JSON.parse: ok is FALSE where JSON.parse throws a SyntaxError; otherwise
\* value is the decoded value: a scalar, or an object with its type member
\* ("absent" when the object has none).
JSONParse(text) ==
    IF Len(text) = 1 /\ text[1] \in Scalars
    THEN [ok |-> TRUE, value |-> [kind |-> "scalar", type |-> text[1]]]
    ELSE IF Len(text) = 2 /\ text[1] = "{" /\ text[2] = "}"
    THEN [ok |-> TRUE, value |-> [kind |-> "object", type |-> "absent"]]
    ELSE IF Len(text) = 5 /\ text[1] = "{" /\ text[2] = "type" /\ text[3] = ":"
            /\ text[4] \notin {"{", "}", ":"} /\ text[5] = "}"
    THEN [ok |-> TRUE, value |-> [kind |-> "object", type |-> text[4]]]
    ELSE [ok |-> FALSE, value |-> [kind |-> "none", type |-> "none"]]

NoValue == [kind |-> "none", type |-> "none"]

\* Values the caller passes to send().
Payloads ==
    { [kind |-> "object", type |-> "status"],
      [kind |-> "object", type |-> "absent"],
      [kind |-> "scalar", type |-> "null"] }

\* JSON.stringify of a value: the text whose tokens spell the value.
JSONStringify(v) ==
    IF v.kind = "scalar" THEN <<v.type>>
    ELSE IF v.kind = "object" /\ v.type = "absent" THEN <<"{", "}">>
    ELSE IF v.kind = "object" THEN <<"{", "type", ":", v.type, "}">>
    ELSE <<>>

\* ------------------------------------------------------------ history
\* The record of a step.  op: the operation; sock: the handle it concerned
\* (0: none); calls: handler ids invoked, in order; scheduled: delay of the
\* timer the step set (0: none); parsed: JSON.parse succeeded; value: the
\* value handed to the message handlers; escaped: an exception left the
\* callback; before: reconnectAttempts when the step began; afterDrop: the
\* step delivered a frame on the handle whose previous frame was dropped;
\* data: the text of the frame delivered.
Step(op, sock) ==
    [op |-> op, sock |-> sock, calls |-> <<>>, scheduled |-> 0,
     parsed |-> FALSE, value |-> NoValue, escaped |-> FALSE,
     before |-> reconnectAttempts, afterDrop |-> FALSE, data |-> <<>>]

RECURSIVE Bump(_, _)
\* closeInvoked with one more invocation counted for every id in calls that
\* belongs to fromStart
Bump(f, calls) ==
    IF calls = <<>> THEN f
    ELSE IF Head(calls) \in fromStart
         THEN Bump([f EXCEPT ![Head(calls)] = @ + 1], Tail(calls))
         ELSE Bump(f, Tail(calls))

\* ------------------------------------------------------------- addresses
\* An address is a sequence of characters; a host or a job identifier is
\* one element of it.
Address(scheme, host) == scheme \o <<":", "/", "/", host>>

\* the fallback of `process.env.NEXT_PUBLIC_WS_URL || 'ws://localhost:8000'`
DefaultBase == Address(<<"w", "s">>, "localhost:8000")

\* Variant of ReplaceHttp: the prefix https is replaced as a whole.
ReplaceHttps(str) ==
    IF Len(str) >= 5 /\ SubSeq(str, 1, 5) = <<"h", "t", "t", "p", "s">>
    THEN <<"w", "s">> \o SubSeq(str, 6, Len(str))
    ELSE IF Len(str) >= 4 /\ SubSeq(str, 1, 4) = <<"h", "t", "t", "p">>
    THEN <<"w", "s">> \o SubSeq(str, 5, Len(str))
    ELSE str

\* str.replace(/^http/, 'ws')
ReplaceHttp(str) ==
    IF Len(str) >= 4 /\ SubSeq(str, 1, 4) = <<"h", "t", "t", "p">>
    THEN <<"w", "s">> \o SubSeq(str, 5, Len(str))
    ELSE str

\* the module constant WS_BASE_URL; an empty or unset variable is falsy
WS_BASE_URL == ReplaceHttp(IF env = <<>> THEN DefaultBase ELSE env)

\* `${WS_BASE_URL}/ws/compression/${this.jobId}`
url == WS_BASE_URL \o <<"/ws/compression/", jobId>>

\* --------------------------------------------------------------- queries
\* isConnected()
IsConnected == ws # 0 /\ sockets[ws] = "OPEN"

\* handles that are connecting or open
Live == {h \in 1..Len(sockets) : sockets[h] \in {"CONNECTING", "OPEN"}}

\* ------------------------------------------------------------ construction
\* Variant of connect: the new handle is not stored in this.ws.
connectKeepsHandle ==
    /\ targets' = Append(targets, url)
    /\ ws' = ws
    /\ sockets' = Append(sockets, "CONNECTING")

\* The try block of connect() ran to its end: a new handle exists, it is
\* the instance's current handle, and the four callbacks are attached to it.
connect ==
    /\ targets' = Append(targets, url)
    /\ ws' = Len(sockets) + 1
    /\ sockets' = Append(sockets, "CONNECTING")

\* new WebSocket(url) threw: the catch block of connect() calls the error
\* handlers; this.ws keeps its previous value and no handle is created.
connectCatch(op) ==
    LET r == ForEach(errorHandlers)
    IN  /\ last' = [Step(op, 0) EXCEPT !.calls = r.calls, !.escaped = r.threw]
        /\ failureCalls' = failureCalls \cup {r.calls[k] : k \in 1..Len(r.calls)}
        /\ targets' = Append(targets, url)
        /\ UNCHANGED <<ws, sockets>>

\* the store before any call: no item is kept under the key
StoreEmpty ==
    /\ jobHistory = <<>>
    /\ storeLast = [op |-> "none", jobId |-> 0]

\* currentJob's initial state
NoJob == "null"

\* a message that is none
NoMessage == [type |-> "none", status |-> "none"]

\* The useState initial values of the monitor.  metrics, ttCores and
\* benchmarkResults hold, for every sample, the client that delivered it;
\* fetches counts the getJobResults requests in flight.
InitialView ==
    [metrics |-> <<>>, ttCores |-> <<>>, benchmarkResults |-> <<>>,
     error |-> "null", isCompressing |-> FALSE, wsConnected |-> FALSE,
     result |-> "null", ws |-> 0, fetches |-> 0]

\* The record of a monitor step: the operation, the client whose event it
\* was (0: none), and the message delivered.
Event(op, k, m) == [op |-> op, client |-> k, message |-> m]

\* The monitor component once mounted: no job, and the effect has run for it.
MonitorMounted ==
    /\ view = InitialView
    /\ event = [op |-> "mount", client |-> 0, message |-> NoMessage]
    /\ currentJob = NoJob
    /\ wsRef = 0
    /\ clients = <<>>
    /\ effectJob = NoJob
    /\ hasCleanup = FALSE
    /\ mounted = TRUE

\* State after `new CompressionWebSocket(jobId)`: the handler lists are the
\* empty field initialisers, connect() has run once and either created the
\* first handle or caught the exception of the transport constructor.
Construct(e, j) ==
    /\ MonitorMounted
    /\ StoreEmpty
    /\ env = e
    /\ jobId = j
    /\ targets = <<url>>
    /\ messageHandlers = <<>>
    /\ errorHandlers = <<>>
    /\ openHandlers = <<>>
    /\ closeHandlers = <<>>
    /\ reconnectAttempts = 0
    /\ isManuallyClosed = FALSE
    /\ timers = <<>>
    /\ everOpened = FALSE
    /\ closesSinceOpen = 0
    /\ attemptsSinceOpen = 1
    /\ closeInvoked = [i \in 1..MaxHandlers |-> 0]
    /\ closeEvents = 0
    /\ fromStart = {}
    /\ written = <<>>
    /\ sent = {}
    /\ refused = {}
    /\ failureCalls = {}
    /\ \/ /\ ws = 1
          /\ sockets = <<"CONNECTING">>
          /\ last = Step("construct", 1)
       \/ /\ ws = 0
          /\ sockets = <<>>
          /\ last = Step("constructThrew", 0)

\* The client for job "abc123" where NEXT_PUBLIC_WS_URL is not set.
Init == Construct(<<>>, "abc123")

\* values of NEXT_PUBLIC_WS_URL
EnvValues ==
    { <<>>,
      Address(<<"h", "t", "t", "p">>, "h"),
      Address(<<"h", "t", "t", "p", "s">>, "h"),
      Address(<<"w", "s">>, "h"),
      Address(<<"w", "s", "s">>, "h") }

JobIds == {"abc123", "job2"}

\* The client for any of the job identifiers and configured addresses.
InitAddress == \E e \in EnvValues, j \in JobIds : Construct(e, j)

\* ------------------------------------------------- callbacks of a handle
\* Variant of onopen: the attempt counter is not reset.
onopenNoReset(h) ==
    LET r == ForEach(openHandlers)
    IN  /\ last' = [Step("open", h) EXCEPT !.calls = r.calls, !.escaped = r.threw]
        /\ everOpened' = TRUE
        /\ closesSinceOpen' = 0
        /\ UNCHANGED <<ws, handlerVars, reconnectAttempts, isManuallyClosed,
                       timers, closeLog>>

\* this.ws.onopen
onopen(h) ==
    LET r == ForEach(openHandlers)
    IN  /\ reconnectAttempts' = 0
        /\ last' = [Step("open", h) EXCEPT !.calls = r.calls, !.escaped = r.threw]
        /\ everOpened' = TRUE
        /\ closesSinceOpen' = 0
        /\ UNCHANGED <<ws, handlerVars, isManuallyClosed, timers, closeLog>>

\* Variant of onmessage: a frame that does not parse is still handed to the
\* message handlers.
onmessageNoCatch(h, data) ==
    LET p == JSONParse(data)
        r == ForEach(messageHandlers)
        dropped == last.op = "message" /\ ~last.parsed /\ last.sock = h
    IN  /\ last' = [Step("message", h) EXCEPT !.calls = r.calls,
                         !.parsed = p.ok, !.value = p.value,
                         !.afterDrop = dropped, !.data = data]
        /\ UNCHANGED <<ws, handlerVars, reconnectAttempts, isManuallyClosed,
                       timers, everOpened, closesSinceOpen, closeLog>>

\* Variant of onmessage: the handlers receive event.data as it arrived.
onmessageRaw(h, data) ==
    LET r == ForEach(messageHandlers)
        dropped == last.op = "message" /\ ~last.parsed /\ last.sock = h
    IN  /\ last' = [Step("message", h) EXCEPT !.calls = r.calls,
                         !.parsed = TRUE, !.value = [kind |-> "text", type |-> "raw"],
                         !.afterDrop = dropped, !.data = data]
        /\ UNCHANGED <<ws, handlerVars, reconnectAttempts, isManuallyClosed,
                       timers, everOpened, closesSinceOpen, closeLog>>

\* this.ws.onmessage: an exception of JSON.parse, and one of a handler, are
\* both caught by the try/catch around them.
onmessage(h, data) ==
    LET p == JSONParse(data)
        r == ForEach(messageHandlers)
        dropped == last.op = "message" /\ ~last.parsed /\ last.sock = h
    IN  /\ last' = IF p.ok
                   THEN [Step("message", h) EXCEPT !.calls = r.calls,
                             !.parsed = TRUE, !.value = p.value,
                             !.afterDrop = dropped, !.data = data]
                   ELSE [Step("message", h) EXCEPT !.afterDrop = dropped,
                             !.data = data]
        /\ UNCHANGED <<ws, handlerVars, reconnectAttempts, isManuallyClosed,
                       timers, everOpened, closesSinceOpen, closeLog>>

\* Variant of onerror: the error callback schedules a reconnection as well.
onerrorReconnects(h) ==
    LET r == ForEach(errorHandlers)
        retry == /\ ~r.threw
                 /\ ~isManuallyClosed
                 /\ reconnectAttempts < maxReconnectAttempts
        n == reconnectAttempts + 1
    IN  /\ reconnectAttempts' = IF retry THEN n ELSE reconnectAttempts
        /\ timers' = IF retry THEN Append(timers, Backoff(n)) ELSE timers
        /\ last' = [Step("error", h) EXCEPT !.calls = r.calls, !.escaped = r.threw,
                         !.scheduled = IF retry THEN Backoff(n) ELSE 0]
        /\ UNCHANGED <<ws, handlerVars, isManuallyClosed, everOpened,
                       closesSinceOpen, closeLog>>

\* this.ws.onerror
onerror(h) ==
    LET r == ForEach(errorHandlers)
    IN  /\ last' = [Step("error", h) EXCEPT !.calls = r.calls, !.escaped = r.threw]
        /\ UNCHANGED <<ws, handlerVars, reconnectAttempts, isManuallyClosed,
                       timers, everOpened, closesSinceOpen, closeLog>>

\* Variant of onclose: the manual-close flag is not tested.
oncloseIgnoresManual(h) ==
    LET r == ForEach(closeHandlers)
        retry == /\ ~r.threw
                 /\ reconnectAttempts < maxReconnectAttempts
        n == reconnectAttempts + 1
    IN  /\ reconnectAttempts' = IF retry THEN n ELSE reconnectAttempts
        /\ timers' = IF retry THEN Append(timers, Backoff(n)) ELSE timers
        /\ last' = [Step("close", h) EXCEPT !.calls = r.calls, !.escaped = r.threw,
                         !.scheduled = IF retry THEN Backoff(n) ELSE 0]
        /\ closeInvoked' = Bump(closeInvoked, r.calls)
        /\ closeEvents' = closeEvents + 1
        /\ closesSinceOpen' = IF isManuallyClosed THEN closesSinceOpen
                              ELSE closesSinceOpen + 1
        /\ UNCHANGED <<ws, handlerVars, isManuallyClosed, everOpened, fromStart>>

\* Variant of onclose: the ceiling is tested with <= instead of <.
oncloseOffByOne(h) ==
    LET r == ForEach(closeHandlers)
        retry == /\ ~r.threw
                 /\ ~isManuallyClosed
                 /\ reconnectAttempts <= maxReconnectAttempts
        n == reconnectAttempts + 1
    IN  /\ reconnectAttempts' = IF retry THEN n ELSE reconnectAttempts
        /\ timers' = IF retry THEN Append(timers, Backoff(n)) ELSE timers
        /\ last' = [Step("close", h) EXCEPT !.calls = r.calls, !.escaped = r.threw,
                         !.scheduled = IF retry THEN Backoff(n) ELSE 0]
        /\ closeInvoked' = Bump(closeInvoked, r.calls)
        /\ closeEvents' = closeEvents + 1
        /\ closesSinceOpen' = IF isManuallyClosed THEN closesSinceOpen
                              ELSE closesSinceOpen + 1
        /\ UNCHANGED <<ws, handlerVars, isManuallyClosed, everOpened, fromStart>>

\* Variant of onclose: the attempt counter is not incremented.
oncloseNoIncrement(h) ==
    LET r == ForEach(closeHandlers)
        retry == /\ ~r.threw
                 /\ ~isManuallyClosed
                 /\ reconnectAttempts < maxReconnectAttempts
        n == reconnectAttempts + 1
    IN  /\ reconnectAttempts' = IF retry THEN reconnectAttempts ELSE reconnectAttempts
        /\ timers' = IF retry THEN Append(timers, Backoff(n)) ELSE timers
        /\ last' = [Step("close", h) EXCEPT !.calls = r.calls, !.escaped = r.threw,
                         !.scheduled = IF retry THEN Backoff(n) ELSE 0]
        /\ closeInvoked' = Bump(closeInvoked, r.calls)
        /\ closeEvents' = closeEvents + 1
        /\ closesSinceOpen' = IF isManuallyClosed THEN closesSinceOpen
                              ELSE closesSinceOpen + 1
        /\ UNCHANGED <<ws, handlerVars, isManuallyClosed, everOpened, fromStart>>

\* this.ws.onclose: the close handlers run first; an exception of one of
\* them leaves the callback before the reconnection test.
onclose(h) ==
    LET r == ForEach(closeHandlers)
        retry == /\ ~r.threw
                 /\ ~isManuallyClosed
                 /\ reconnectAttempts < maxReconnectAttempts
        n == reconnectAttempts + 1
    IN  /\ reconnectAttempts' = IF retry THEN n ELSE reconnectAttempts
        /\ timers' = IF retry THEN Append(timers, Backoff(n)) ELSE timers
        /\ last' = [Step("close", h) EXCEPT !.calls = r.calls, !.escaped = r.threw,
                         !.scheduled = IF retry THEN Backoff(n) ELSE 0]
        /\ closeInvoked' = Bump(closeInvoked, r.calls)
        /\ closeEvents' = closeEvents + 1
        /\ closesSinceOpen' = IF isManuallyClosed THEN closesSinceOpen
                              ELSE closesSinceOpen + 1
        /\ UNCHANGED <<ws, handlerVars, isManuallyClosed, everOpened, fromStart>>

\* ------------------------------------------------------ transport events
\* The transport opens a connecting handle and runs its onopen callback.
SockOpen(h) ==
    /\ sockets[h] = "CONNECTING"
    /\ sockets' = [sockets EXCEPT ![h] = "OPEN"]
    /\ onopen(h)
    /\ attemptsSinceOpen' = 1
    /\ UNCHANGED <<sendLog, failureCalls, addressVars,
                   monitorVars, storeVars>>

\* The transport delivers a text frame on an open handle.
SockMessage(h, data) ==
    /\ sockets[h] = "OPEN"
    /\ sockets' = sockets
    /\ onmessage(h, data)
    /\ UNCHANGED <<attemptsSinceOpen, sendLog, failureCalls, addressVars,
                   monitorVars, storeVars>>

\* The transport reports an error on a handle that is not closed yet.
SockError(h) ==
    /\ sockets[h] # "CLOSED"
    /\ sockets' = sockets
    /\ onerror(h)
    /\ UNCHANGED <<attemptsSinceOpen, sendLog, failureCalls, addressVars,
                   monitorVars, storeVars>>

\* The transport closes a handle (failed connect, remote close, or the end
\* of a close() the client started) and runs its onclose callback.
SockClose(h) ==
    /\ sockets[h] # "CLOSED"
    /\ sockets' = [sockets EXCEPT ![h] = "CLOSED"]
    /\ onclose(h)
    /\ UNCHANGED <<attemptsSinceOpen, sendLog, failureCalls, addressVars,
                   monitorVars, storeVars>>

\* ------------------------------------------------------------------ timer
RemoveAt(s, i) == SubSeq(s, 1, i - 1) \o SubSeq(s, i + 1, Len(s))

\* Variant of TimerFire: the timer that fired stays pending.
TimerFireStays(i) ==
    /\ Len(sockets) < MaxSockets
    /\ timers' = timers
    /\ connect
    /\ attemptsSinceOpen' = attemptsSinceOpen + 1
    /\ last' = Step("timer", Len(sockets) + 1)
    /\ UNCHANGED <<handlerVars, reconnectAttempts, isManuallyClosed, everOpened,
                   closesSinceOpen, closeLog, sendLog, failureCalls, env, jobId,
                   monitorVars, storeVars>>

\* A pending setTimeout callback runs: () => this.connect()
TimerFire(i) ==
    /\ Len(sockets) < MaxSockets
    /\ timers' = RemoveAt(timers, i)
    /\ connect
    /\ attemptsSinceOpen' = attemptsSinceOpen + 1
    /\ last' = Step("timer", Len(sockets) + 1)
    /\ UNCHANGED <<handlerVars, reconnectAttempts, isManuallyClosed, everOpened,
                   closesSinceOpen, closeLog, sendLog, failureCalls, env, jobId,
                   monitorVars, storeVars>>

\* Variant of TimerFireThrows: the catch block schedules another attempt.
TimerFireThrowsRetries(i) ==
    /\ timers' = Append(RemoveAt(timers, i), reconnectDelay)
    /\ connectCatch("timerThrew")
    /\ attemptsSinceOpen' = attemptsSinceOpen + 1
    /\ UNCHANGED <<handlerVars, reconnectAttempts, isManuallyClosed, everOpened,
                   closesSinceOpen, closeLog, sendLog, env, jobId,
                   monitorVars, storeVars>>

\* A pending setTimeout callback runs and the transport constructor throws.
TimerFireThrows(i) ==
    /\ timers' = RemoveAt(timers, i)
    /\ connectCatch("timerThrew")
    /\ attemptsSinceOpen' = attemptsSinceOpen + 1
    /\ UNCHANGED <<handlerVars, reconnectAttempts, isManuallyClosed, everOpened,
                   closesSinceOpen, closeLog, sendLog, env, jobId,
                   monitorVars, storeVars>>

\* ------------------------------------------------------ public operations
\* ws.close() of the transport: a connecting or open handle starts closing.
Close(state) == IF state \in {"CONNECTING", "OPEN"} THEN "CLOSING" ELSE state

disconnect ==
    /\ isManuallyClosed' = TRUE
    /\ IF ws # 0
       THEN /\ sockets' = [sockets EXCEPT ![ws] = Close(@)]
            /\ ws' = 0
       ELSE UNCHANGED <<ws, sockets>>
    /\ last' = Step("disconnect", ws)
    /\ UNCHANGED <<attemptsSinceOpen, handlerVars, reconnectAttempts, timers, everOpened,
                   closesSinceOpen, closeLog, sendLog, failureCalls,
                   addressVars,
                   monitorVars, storeVars>>

\* Variant of send: the frame is written whenever a handle exists.
sendUnchecked(data) ==
    LET open == ws # 0 /\ sockets[ws] = "OPEN"
        write == ws # 0
    IN  /\ data \notin sent
        /\ written' = IF write
                      THEN Append(written, [sock |-> ws, data |-> JSONStringify(data)])
                      ELSE written
        /\ sent' = sent \cup {data}
        /\ refused' = IF open THEN refused
                      ELSE refused \cup {[data |-> data, at |-> Len(sockets)]}
        /\ last' = [Step("send", ws) EXCEPT !.value = data]
        /\ UNCHANGED <<attemptsSinceOpen, ws, sockets, handlerVars, reconnectAttempts, isManuallyClosed,
                       timers, everOpened, closesSinceOpen, closeLog,
                       failureCalls, addressVars,
                   monitorVars, storeVars>>

\* Variant of send: the frame is written unless the handle is closed.
sendUnlessClosed(data) ==
    LET open == ws # 0 /\ sockets[ws] = "OPEN"
        write == ws # 0 /\ sockets[ws] # "CLOSED"
    IN  /\ data \notin sent
        /\ written' = IF write
                      THEN Append(written, [sock |-> ws, data |-> JSONStringify(data)])
                      ELSE written
        /\ sent' = sent \cup {data}
        /\ refused' = IF open THEN refused
                      ELSE refused \cup {[data |-> data, at |-> Len(sockets)]}
        /\ last' = [Step("send", ws) EXCEPT !.value = data]
        /\ UNCHANGED <<attemptsSinceOpen, ws, sockets, handlerVars, reconnectAttempts, isManuallyClosed,
                       timers, everOpened, closesSinceOpen, closeLog,
                       failureCalls, addressVars,
                   monitorVars, storeVars>>

\* send(data): the frame is written to the current handle when that handle
\* is open; otherwise only a warning is logged.  Every payload is passed once.
send(data) ==
    LET open == ws # 0 /\ sockets[ws] = "OPEN"
        write == open
    IN  /\ data \notin sent
        /\ written' = IF write
                      THEN Append(written, [sock |-> ws, data |-> JSONStringify(data)])
                      ELSE written
        /\ sent' = sent \cup {data}
        /\ refused' = IF open THEN refused
                      ELSE refused \cup {[data |-> data, at |-> Len(sockets)]}
        /\ last' = [Step("send", ws) EXCEPT !.value = data]
        /\ UNCHANGED <<attemptsSinceOpen, ws, sockets, handlerVars, reconnectAttempts, isManuallyClosed,
                       timers, everOpened, closesSinceOpen, closeLog,
                       failureCalls, addressVars,
                   monitorVars, storeVars>>

registerFrame ==
    /\ last' = Step("register", 0)
    /\ UNCHANGED <<attemptsSinceOpen, ws, sockets, reconnectAttempts, isManuallyClosed, timers,
                   everOpened, closesSinceOpen, closeInvoked, closeEvents,
                   sendLog, failureCalls, addressVars,
                   monitorVars, storeVars>>

onMessage(handler) ==
    /\ messageHandlers' = Append(messageHandlers, handler)
    /\ UNCHANGED <<errorHandlers, openHandlers, closeHandlers, fromStart>>
    /\ registerFrame

onError(handler) ==
    /\ errorHandlers' = Append(errorHandlers, handler)
    /\ UNCHANGED <<messageHandlers, openHandlers, closeHandlers, fromStart>>
    /\ registerFrame

onOpen(handler) ==
    /\ openHandlers' = Append(openHandlers, handler)
    /\ UNCHANGED <<messageHandlers, errorHandlers, closeHandlers, fromStart>>
    /\ registerFrame

onClose(handler) ==
    /\ closeHandlers' = Append(closeHandlers, handler)
    /\ UNCHANGED <<messageHandlers, errorHandlers, openHandlers>>
    /\ fromStart' = IF closeEvents = 0 THEN fromStart \cup {handler.id} ELSE fromStart
    /\ registerFrame

\* The caller registers a new callback; the k-th callback registered on the
\* instance is identified by k.
Register(raises) ==
    /\ Registered < MaxHandlers
    /\ LET handler == Handler(Registered + 1, raises)
       IN  \/ onMessage(handler)
           \/ onError(handler)
           \/ onOpen(handler)
           \/ onClose(handler)

\* ---------------------------------------------------------- specification
Next ==
    \/ \E h \in 1..Len(sockets) : SockOpen(h)
    \/ \E h \in 1..Len(sockets), data \in Frames : SockMessage(h, data)
    \/ \E h \in 1..Len(sockets) : SockError(h)
    \/ \E h \in 1..Len(sockets) : SockClose(h)
    \/ \E i \in 1..Len(timers) : TimerFire(i)
    \/ \E i \in 1..Len(timers) : TimerFireThrows(i)
    \/ disconnect
    \/ Register(FALSE)

\* The client with handlers that return normally.
Spec == Init /\ [][Next]_vars

\* The client on which no handler is registered, with calls of send().
NextSend ==
    \/ \E h \in 1..Len(sockets) : SockOpen(h)
    \/ \E h \in 1..Len(sockets) : SockError(h)
    \/ \E h \in 1..Len(sockets) : SockClose(h)
    \/ \E i \in 1..Len(timers) : TimerFire(i)
    \/ \E i \in 1..Len(timers) : TimerFireThrows(i)
    \/ disconnect
    \/ \E data \in Payloads : send(data)

SpecSend == Init /\ [][NextSend]_vars

\* ----------------------------------------------------- monitor component
\* clients of the monitor on which disconnect() has not been called
Held(cs) == {k \in 1..Len(cs) : cs[k].disconnects = 0}

\* Variant of Release: the reference is dropped, the client is left alone.
ReleaseDropsRef(cs, ref) == cs

\* if (wsRef.current) { wsRef.current.disconnect(); wsRef.current = null }
\* as the clients after it; wsRef.current is null after it in every case.
\* disconnect() of the client starts the close of its handle and drops it.
Release(cs, ref) ==
    IF ref # 0
    THEN [cs EXCEPT ![ref].disconnects = @ + 1,
                    ![ref].readyState = IF cs[ref].ws THEN Close(@) ELSE @,
                    ![ref].ws = FALSE]
    ELSE cs

\* new CompressionWebSocket(job) by the monitor: the client's fields after
\* its constructor, with the clients held when it was constructed.
NewClient(job, held) ==
    [job |-> job, disconnects |-> 0, heldBefore |-> held,
     readyState |-> "CONNECTING", ws |-> TRUE, timer |-> FALSE,
     reconnectAttempts |-> 0]

\* the type member of the frames a client delivers
MessageTypes ==
    {"metrics", "status", "tt_core_data", "tensor_core_data",
     "benchmark_result", "error", "complete"}

\* the status member of a status frame
Statuses == {"running", "completed", "failed"}

Messages ==
    {[type |-> t, status |-> "absent"] : t \in MessageTypes}
        \cup {[type |-> "status", status |-> st] : st \in Statuses}

\* Variant of monitorOnMessage: the tensor-core case is named
\* tensor_core_data.
monitorOnMessageRenamed(v, m, k) ==
    CASE m.type = "metrics" -> [v EXCEPT !.metrics = Append(@, k)]
      [] m.type = "status" /\ m.status = "completed" ->
            [v EXCEPT !.isCompressing = FALSE, !.fetches = @ + 1]
      [] m.type = "status" /\ m.status = "running" ->
            [v EXCEPT !.isCompressing = TRUE]
      [] m.type = "tensor_core_data" -> [v EXCEPT !.ttCores = Append(@, k)]
      [] m.type = "benchmark_result" ->
            [v EXCEPT !.benchmarkResults = Append(@, k)]
      [] m.type = "error" -> [v EXCEPT !.error = "message", !.isCompressing = FALSE]
      [] OTHER -> v

\* The callback the monitor passes to onMessage, called with message m by
\* client k: the view after it.
monitorOnMessage(v, m, k) ==
    CASE m.type = "metrics" -> [v EXCEPT !.metrics = Append(@, k)]
      [] m.type = "status" /\ m.status = "completed" ->
            [v EXCEPT !.isCompressing = FALSE, !.fetches = @ + 1]
      [] m.type = "status" /\ m.status = "running" ->
            [v EXCEPT !.isCompressing = TRUE]
      [] m.type = "tt_core_data" -> [v EXCEPT !.ttCores = Append(@, k)]
      [] m.type = "benchmark_result" ->
            [v EXCEPT !.benchmarkResults = Append(@, k)]
      [] m.type = "error" -> [v EXCEPT !.error = "message", !.isCompressing = FALSE]
      [] OTHER -> v

\* the callback the monitor passes to onError
monitorOnError(v) ==
    [v EXCEPT !.error = "connection", !.isCompressing = FALSE, !.wsConnected = FALSE]

\* the callback the monitor passes to onOpen
monitorOnOpen(v) == [v EXCEPT !.wsConnected = TRUE]

\* the callback the monitor passes to onClose, called by client k
monitorOnClose(v, k) == [v EXCEPT !.wsConnected = FALSE]

\* samples and result requests the view holds
Samples(v) ==
    Len(v.metrics) + Len(v.ttCores) + Len(v.benchmarkResults) + v.fetches

\* handleStartCompression up to its request, and the request's success:
\* the view is reset and setCurrentJob(response.job_id) is called.  (The
\* handler is modelled, not the button that is disabled while compressing.)
handleStartCompression(j) ==
    /\ mounted
    /\ currentJob' = j
    /\ view' = [view EXCEPT !.isCompressing = TRUE, !.error = "null",
                            !.metrics = <<>>, !.result = "null",
                            !.ttCores = <<>>, !.benchmarkResults = <<>>]
    /\ event' = Event("start", 0, NoMessage)
    /\ UNCHANGED <<wsRef, clients, effectJob, hasCleanup, mounted>>
    /\ UNCHANGED <<clientVars, sendLog, failureCalls, addressVars, storeVars>>

\* handleStartCompression where apiClient.startCompression rejects
handleStartCompressionFails ==
    /\ mounted
    /\ view' = [view EXCEPT !.isCompressing = FALSE, !.error = "request",
                            !.metrics = <<>>, !.result = "null",
                            !.ttCores = <<>>, !.benchmarkResults = <<>>]
    /\ event' = Event("startFailed", 0, NoMessage)
    /\ UNCHANGED <<currentJob, wsRef, clients, effectJob, hasCleanup, mounted>>
    /\ UNCHANGED <<clientVars, sendLog, failureCalls, addressVars, storeVars>>

handleStopCompression ==
    /\ mounted
    /\ currentJob # NoJob
    /\ currentJob' = NoJob
    /\ view' = [view EXCEPT !.isCompressing = FALSE]
    /\ event' = Event("stop", 0, NoMessage)
    /\ UNCHANGED <<wsRef, clients, effectJob, hasCleanup, mounted>>
    /\ UNCHANGED <<clientVars, sendLog, failureCalls, addressVars, storeVars>>

\* The effect on [currentJob]: the cleanup its last run returned, then its
\* body, when currentJob differs from the value of its last run.
useEffect ==
    LET cleaned == IF hasCleanup THEN Release(clients, wsRef) ELSE clients
        ref     == IF hasCleanup THEN 0 ELSE wsRef
        v1      == IF hasCleanup /\ wsRef # 0
                   THEN [view EXCEPT !.wsConnected = FALSE] ELSE view
        body    == Release(cleaned, ref)
    IN  /\ mounted
        /\ currentJob # effectJob
        /\ effectJob' = currentJob
        /\ IF currentJob = NoJob
           THEN /\ clients' = body
                /\ wsRef' = 0
                /\ hasCleanup' = FALSE
                /\ view' = IF ref # 0
                           THEN [v1 EXCEPT !.ws = 0, !.wsConnected = FALSE]
                           ELSE v1
           ELSE /\ Len(clients) < MaxClients
                /\ clients' = Append(body, NewClient(currentJob, Held(body)))
                /\ wsRef' = Len(clients) + 1
                /\ hasCleanup' = TRUE
                /\ view' = [v1 EXCEPT !.ws = Len(clients) + 1]
        /\ event' = Event("effect", 0, NoMessage)
        /\ UNCHANGED <<currentJob, mounted>>
        /\ UNCHANGED <<clientVars, sendLog, failureCalls, addressVars, storeVars>>

\* The component unmounts: the cleanup of the effect's last run.
unmount ==
    /\ mounted
    /\ mounted' = FALSE
    /\ clients' = IF hasCleanup THEN Release(clients, wsRef) ELSE clients
    /\ wsRef' = IF hasCleanup THEN 0 ELSE wsRef
    /\ hasCleanup' = FALSE
    /\ view' = IF hasCleanup /\ wsRef # 0
               THEN [view EXCEPT !.wsConnected = FALSE] ELSE view
    /\ event' = Event("unmount", 0, NoMessage)
    /\ UNCHANGED <<currentJob, effectJob>>
    /\ UNCHANGED <<clientVars, sendLog, failureCalls, addressVars, storeVars>>

NextMonitor ==
    \/ \E j \in JobIds : handleStartCompression(j)
    \/ handleStartCompressionFails
    \/ handleStopCompression
    \/ useEffect
    \/ unmount

SpecMonitor == Init /\ [][NextMonitor]_vars

\* ---------------------------------------- events of the monitor's clients
\* isConnected() of a client of the monitor
ClientIsConnected(c) == c.ws /\ c.readyState = "OPEN"

\* setState calls of an unmounted component have no effect
SetView(v) == view' = IF mounted THEN v ELSE view

\* what onclose of client c does to its fields, after its close handlers
Retry(c) ==
    IF c.disconnects = 0 /\ c.reconnectAttempts < maxReconnectAttempts
    THEN [c EXCEPT !.readyState = "CLOSED", !.timer = TRUE,
                   !.reconnectAttempts = @ + 1]
    ELSE [c EXCEPT !.readyState = "CLOSED"]

\* the handle of client k opens: onopen, and the monitor's open callback
clientOpen(k) ==
    /\ clients[k].readyState = "CONNECTING"
    /\ clients' = [clients EXCEPT ![k].readyState = "OPEN",
                                  ![k].reconnectAttempts = 0]
    /\ SetView(monitorOnOpen(view))
    /\ event' = Event("open", k, NoMessage)
    /\ UNCHANGED <<currentJob, wsRef, effectJob, hasCleanup, mounted>>
    /\ UNCHANGED <<clientVars, sendLog, failureCalls, addressVars, storeVars>>

\* the open handle of client k delivers the frame of message m: onmessage,
\* and the monitor's message callback
clientMessage(k, m) ==
    /\ clients[k].readyState = "OPEN"
    /\ Samples(view) < MaxSamples
    /\ SetView(monitorOnMessage(view, m, k))
    /\ event' = Event("message", k, m)
    /\ UNCHANGED <<currentJob, wsRef, clients, effectJob, hasCleanup, mounted>>
    /\ UNCHANGED <<clientVars, sendLog, failureCalls, addressVars, storeVars>>

\* the connection of client k fails: its handle is closed, then the error
\* event and the close event are fired on it, in one task
clientFail(k) ==
    /\ clients[k].readyState # "CLOSED"
    /\ clients' = [clients EXCEPT ![k] = Retry(@)]
    /\ SetView(monitorOnClose(monitorOnError(view), k))
    /\ event' = Event("fail", k, NoMessage)
    /\ UNCHANGED <<currentJob, wsRef, effectJob, hasCleanup, mounted>>
    /\ UNCHANGED <<clientVars, sendLog, failureCalls, addressVars, storeVars>>

\* the handle of client k closes: onclose, and the monitor's close callback
clientClose(k) ==
    /\ clients[k].readyState # "CLOSED"
    /\ clients' = [clients EXCEPT ![k] = Retry(@)]
    /\ SetView(monitorOnClose(view, k))
    /\ event' = Event("close", k, NoMessage)
    /\ UNCHANGED <<currentJob, wsRef, effectJob, hasCleanup, mounted>>
    /\ UNCHANGED <<clientVars, sendLog, failureCalls, addressVars, storeVars>>

\* the reconnection timer of client k fires: connect()
clientTimer(k) ==
    /\ clients[k].timer
    /\ clients' = [clients EXCEPT ![k].timer = FALSE,
                                  ![k].readyState = "CONNECTING",
                                  ![k].ws = TRUE]
    /\ event' = Event("timer", k, NoMessage)
    /\ UNCHANGED <<currentJob, wsRef, effectJob, hasCleanup, mounted, view>>
    /\ UNCHANGED <<clientVars, sendLog, failureCalls, addressVars, storeVars>>

\* a getJobResults request settles: setResult(result), or the error is logged
getJobResultsSettles(ok) ==
    /\ view.fetches > 0
    /\ view' = IF ok /\ mounted
               THEN [view EXCEPT !.fetches = @ - 1, !.result = "set"]
               ELSE [view EXCEPT !.fetches = @ - 1]
    /\ event' = Event("results", 0, NoMessage)
    /\ UNCHANGED <<currentJob, wsRef, clients, effectJob, hasCleanup, mounted>>
    /\ UNCHANGED <<clientVars, sendLog, failureCalls, addressVars, storeVars>>

\* The monitor with the frames its clients deliver.
NextDispatch ==
    \/ \E j \in JobIds : handleStartCompression(j)
    \/ useEffect
    \/ \E k \in 1..Len(clients) : clientOpen(k)
    \/ \E k \in 1..Len(clients), m \in Messages : clientMessage(k, m)
    \/ \E ok \in BOOLEAN : getJobResultsSettles(ok)

SpecDispatch == Init /\ [][NextDispatch]_vars

\* clients the monitor constructs where every event of theirs is followed
MaxViewClients == 2

\* the frames delivered where every event of the clients is followed
ViewMessages == {[type |-> "metrics", status |-> "absent"]}

\* The monitor with every event of its clients; the frames delivered start
\* no request for results.
NextView ==
    \/ \E j \in JobIds : handleStartCompression(j)
    \/ handleStartCompressionFails
    \/ handleStopCompression
    \/ (useEffect /\ Len(clients') <= MaxViewClients)
    \/ unmount
    \/ \E k \in 1..Len(clients) : clientOpen(k)
    \/ \E k \in 1..Len(clients), m \in ViewMessages : clientMessage(k, m)
    \/ \E k \in 1..Len(clients) : clientFail(k)
    \/ \E k \in 1..Len(clients) : clientClose(k)
    \/ \E k \in 1..Len(clients) : clientTimer(k)

SpecView == Init /\ [][NextView]_vars

\* The client that is not disconnected and whose server never accepts: the
\* transport reports the close of every handle, and every timer fires.
InitFailing == Init /\ ws = 1

NextFailing ==
    \/ \E h \in 1..Len(sockets) : SockError(h)
    \/ \E h \in 1..Len(sockets) : SockClose(h)
    \/ \E i \in 1..Len(timers) : TimerFire(i)
    \/ Register(FALSE)

SpecFailing ==
    /\ InitFailing
    /\ [][NextFailing]_vars
    /\ WF_vars(\E h \in 1..Len(sockets) : SockClose(h))
    /\ WF_vars(\E i \in 1..Len(timers) : TimerFire(i))

\* The caller registers an open callback that returns normally.
RegisterOpen ==
    /\ Registered < MaxHandlers
    /\ onOpen(Handler(Registered + 1, FALSE))

\* The connection life cycle of the client and its open handlers, where
\* every pending timer fires.
NextRecovering ==
    \/ \E h \in 1..Len(sockets) : SockOpen(h)
    \/ \E h \in 1..Len(sockets) : SockError(h)
    \/ \E h \in 1..Len(sockets) : SockClose(h)
    \/ \E i \in 1..Len(timers) : TimerFire(i)
    \/ \E i \in 1..Len(timers) : TimerFireThrows(i)
    \/ disconnect
    \/ RegisterOpen

SpecRecovering ==
    /\ Init
    /\ [][NextRecovering]_vars
    /\ WF_vars(\E i \in 1..Len(timers) : TimerFire(i) \/ TimerFireThrows(i))

\* ------------------------------------------------------ job history store
\* Job identifiers are numbers; an item is its jobId and status members.
\* The status and the jobId of an update that does not carry the member:
Absent == "absent"

NoId == 0

\* jobIds of the stored items
StoredIds == {jobHistory[k].jobId : k \in 1..Len(jobHistory)}

\* a job identifier that is not stored
Fresh == IF jobHistory = <<>> THEN 2
         ELSE 1 + CHOOSE m \in StoredIds : \A n \in StoredIds : n <= m

\* history.filter(item => item.jobId !== id)
Filter(history, id) == SelectSeq(history, LAMBDA item : item.jobId # id)

\* history.findIndex(item => item.jobId === id), 0 for -1
FindIndex(history, id) ==
    IF \E k \in 1..Len(history) : history[k].jobId = id
    THEN CHOOSE k \in 1..Len(history) :
            /\ history[k].jobId = id
            /\ \A n \in 1..(k - 1) : history[n].jobId # id
    ELSE 0

\* array.slice(0, n)
Slice(array, n) == SubSeq(array, 1, IF Len(array) < n THEN Len(array) ELSE n)

\* { ...item, ...updates }
Merge(item, updates) ==
    [jobId  |-> IF updates.jobId = NoId THEN item.jobId ELSE updates.jobId,
     status |-> IF updates.status = Absent THEN item.status ELSE updates.status]

\* the jobs passed to addJobToHistory: job 1, or a job not stored
Jobs == {[jobId |-> 1, status |-> "completed"], [jobId |-> Fresh, status |-> "completed"]}

\* the updates passed to updateJobInHistory, a Partial<JobHistoryItem>
Updates ==
    {[jobId |-> j, status |-> st] : j \in {NoId, 2}, st \in {Absent, "cancelled"}}

\* The calls below are those made while localStorage is available; a call
\* made while it is not returns at once and changes nothing.
addJobToHistory(job) ==
    /\ job.jobId <= HistoryLimit + 2
    /\ jobHistory' = Slice(<<job>> \o Filter(jobHistory, job.jobId), HistoryLimit)
    /\ storeLast' = [op |-> "add", jobId |-> job.jobId]
    /\ UNCHANGED <<clientVars, sendLog, failureCalls, addressVars, monitorVars>>

updateJobInHistory(id, updates) ==
    LET index == FindIndex(jobHistory, id)
    IN  /\ jobHistory' = IF index # 0
                         THEN [jobHistory EXCEPT ![index] = Merge(@, updates)]
                         ELSE jobHistory
        /\ storeLast' = [op |-> "update", jobId |-> id]
        /\ UNCHANGED <<clientVars, sendLog, failureCalls, addressVars, monitorVars>>

removeJobFromHistory(id) ==
    /\ jobHistory' = Filter(jobHistory, id)
    /\ storeLast' = [op |-> "remove", jobId |-> id]
    /\ UNCHANGED <<clientVars, sendLog, failureCalls, addressVars, monitorVars>>

clearJobHistory ==
    /\ jobHistory' = <<>>
    /\ storeLast' = [op |-> "clear", jobId |-> 0]
    /\ UNCHANGED <<clientVars, sendLog, failureCalls, addressVars, monitorVars>>

\* The store under calls of its four operations, where entries are updated
\* and removed while the store holds at most MaxEdited of them.
NextStore ==
    \/ \E job \in Jobs : addJobToHistory(job)
    \/ \E id \in {1, 2, Fresh}, updates \in Updates :
          Len(jobHistory) <= MaxEdited /\ updateJobInHistory(id, updates)
    \/ \E id \in {1, 2, Fresh} :
          Len(jobHistory) <= MaxEdited /\ removeJobFromHistory(id)
    \/ clearJobHistory

SpecStore == Init /\ [][NextStore]_vars

\* The connection life cycle of the client for every configured address.
NextAddress ==
    \/ \E h \in 1..Len(sockets) : SockOpen(h)
    \/ \E h \in 1..Len(sockets) : SockError(h)
    \/ \E h \in 1..Len(sockets) : SockClose(h)
    \/ \E i \in 1..Len(timers) : TimerFire(i)
    \/ \E i \in 1..Len(timers) : TimerFireThrows(i)
    \/ disconnect

SpecAddress == InitAddress /\ [][NextAddress]_vars

\* The client with handlers of which some throw when called.
NextRaising == Next \/ Register(TRUE)

SpecRaising == Init /\ [][NextRaising]_vars

\* ================================================================ claims

\* C1 (as claimed): once disconnect() has been called the instance creates
\* no new connection, even when a reconnection timer was pending at the
\* time of the call and fires afterwards.
C1_NoConnectionAfterDisconnect ==
    [][isManuallyClosed => Len(sockets') = Len(sockets)]_vars

\* C2 (as claimed): in every state after disconnect() has returned,
\* isConnected() is false.
C2_DisconnectedAfterDisconnect ==
    isManuallyClosed => ~IsConnected

\* C3: at most one handle of the instance is connecting or open, and when
\* connect() has just created a handle every earlier handle is closed.
C3_AtMostOneLiveHandle ==
    /\ Cardinality(Live) <= 1
    /\ last.op = "timer" =>
           \A h \in 1..(Len(sockets) - 1) : sockets[h] = "CLOSED"

C3_Witness ==
    /\ last.op = "timer"
    /\ Len(sockets) >= 3
    /\ everOpened
    /\ Live = {Len(sockets)}

\* C4: a close event delivered after disconnect() schedules no
\* reconnection and leaves the attempt counter alone, whatever the value
\* of reconnectAttempts.
C4_NoRetryAfterDisconnect ==
    [][(isManuallyClosed /\ last'.op = "close" /\ closeEvents' # closeEvents)
          => /\ timers' = timers
             /\ reconnectAttempts' = reconnectAttempts
             /\ last'.scheduled = 0]_vars

C4_Witness ==
    /\ last.op = "close"
    /\ isManuallyClosed
    /\ reconnectAttempts = 5
    /\ last.scheduled = 0
    /\ timers = <<>>

\* C5: the N-th consecutive non-manual close without an open in between
\* schedules a retry after 1000 * 2^(N-1) ms for N = 1..5, and the 6th
\* schedules none.
C5_Delays == <<1000, 2000, 4000, 8000, 16000>>

C5_BackoffGrowth ==
    (last.op = "close" /\ ~isManuallyClosed) =>
        /\ closesSinceOpen \in 1..6
        /\ IF closesSinceOpen <= 5
           THEN /\ last.scheduled = C5_Delays[closesSinceOpen]
                /\ timers = <<C5_Delays[closesSinceOpen]>>
           ELSE /\ last.scheduled = 0
                /\ timers = <<>>

C5_Witness ==
    /\ last.op = "close"
    /\ ~isManuallyClosed
    /\ closesSinceOpen = 6
    /\ last.scheduled = 0
    /\ timers = <<>>

\* The first k connection attempts of the instance have all failed: k
\* handles were created, none ever opened, all are closed, and disconnect()
\* was not called.
FailedAttempts(k) ==
    /\ Len(sockets) = k
    /\ \A h \in 1..k : sockets[h] = "CLOSED"
    /\ ~everOpened
    /\ ~isManuallyClosed

\* C6 (as claimed): after 5 consecutive failed connection attempts of a new
\* client no 6th attempt is scheduled and the close handlers have been
\* invoked exactly 5 times.
C6_ExhaustedAfterFive ==
    (FailedAttempts(5) /\ last.op = "close") =>
        /\ timers = <<>>
        /\ \A i \in fromStart : closeInvoked[i] = 5

\* C6 (amended): after 6 consecutive failed connection attempts of a new
\* client (the initial one and 5 retries) no 7th attempt is scheduled and
\* the close handlers registered from the start have been invoked exactly
\* 6 times; after the 5th failure a 6th attempt is still scheduled.
C6_ExhaustedAfterSix ==
    /\ (FailedAttempts(6) /\ last.op = "close") =>
           /\ timers = <<>>
           /\ last.scheduled = 0
           /\ closeEvents = 6
           /\ \A i \in fromStart : closeInvoked[i] = 6
    /\ (FailedAttempts(5) /\ last.op = "close") =>
           /\ timers = <<16000>>
           /\ \A i \in fromStart : closeInvoked[i] = 5
    /\ ~everOpened => Len(sockets) <= 6

C6_Witness ==
    /\ FailedAttempts(6)
    /\ last.op = "close"
    /\ fromStart # {}
    /\ timers = <<>>

\* C7: every open resets reconnectAttempts to 0 and invokes all open
\* handlers; the first non-manual close after an open schedules the retry
\* with the base delay of 1000 ms, however many retries preceded the open.
C7_OpenResetsBackoff ==
    /\ last.op = "open" =>
           /\ reconnectAttempts = 0
           /\ last.calls = Ids(openHandlers)
    /\ (last.op = "close" /\ ~isManuallyClosed /\ everOpened /\ closesSinceOpen = 1) =>
           /\ last.before = 0
           /\ last.scheduled = 1000
           /\ timers = <<1000>>

C7_Witness ==
    /\ last.op = "open"
    /\ last.before >= 3
    /\ reconnectAttempts = 0
    /\ Len(last.calls) >= 2

\* C8: every close event invokes all registered close handlers; then, if
\* the manual-close flag is unset and reconnectAttempts < 5, the counter
\* grows by exactly 1 and exactly one attempt is scheduled; otherwise the
\* counter is unchanged and nothing is scheduled.
C8_CloseEvent ==
    [][(last'.op = "close" /\ closeEvents' # closeEvents)
          => /\ last'.calls = Ids(closeHandlers)
             /\ IF ~isManuallyClosed /\ reconnectAttempts < 5
                THEN /\ reconnectAttempts' = reconnectAttempts + 1
                     /\ Len(timers') = Len(timers) + 1
                     /\ last'.scheduled # 0
                ELSE /\ reconnectAttempts' = reconnectAttempts
                     /\ timers' = timers
                     /\ last'.scheduled = 0]_vars

C8_Witness ==
    /\ last.op = "close"
    /\ Len(last.calls) >= 2
    /\ last.scheduled # 0
    /\ reconnectAttempts = last.before + 1
    /\ Len(timers) = 1

\* C9: a frame that does not parse invokes no message handler, leaves the
\* handle open and the attempt counter, the manual-close flag, the current
\* handle and the timers unchanged; the next frame on the same handle is
\* still delivered to every message handler.
C9_MalformedFrameIsolated ==
    /\ [][(last'.op = "message" /\ ~last'.parsed)
             => /\ last'.calls = <<>>
                /\ sockets'[last'.sock] = "OPEN"
                /\ UNCHANGED <<ws, sockets, reconnectAttempts, isManuallyClosed,
                               timers, handlerVars>>]_vars
    /\ [][(last.op = "message" /\ ~last.parsed /\ last'.op = "message"
              /\ last'.sock = last.sock /\ last'.parsed)
             => last'.calls = Ids(messageHandlers)]_vars

C9_Witness ==
    /\ last.op = "message"
    /\ last.parsed
    /\ last.afterDrop
    /\ Len(last.calls) >= 1
    /\ IsConnected

\* C10: one occurrence of an event invokes the handlers registered for its
\* class in registration order, each exactly once, on every connection of
\* the instance.
C10_FanOutOrder ==
    /\ last.op = "open" => last.calls = Ids(openHandlers)
    /\ (last.op = "message" /\ last.parsed) => last.calls = Ids(messageHandlers)
    /\ last.op \in {"error", "timerThrew"} => last.calls = Ids(errorHandlers)
    /\ last.op = "close" => last.calls = Ids(closeHandlers)

C10_Witness ==
    /\ last.op = "message"
    /\ last.parsed
    /\ last.sock >= 2
    /\ last.calls = <<1, 2, 3>>

\* C11: send(x) writes the serialised payload on the current handle if and
\* only if isConnected() holds; otherwise nothing is written on any handle;
\* in both cases the client state is left as it was.
C11_SendGating ==
    [][(last'.op = "send" /\ sent' # sent)
          => /\ IF IsConnected
                THEN written' = Append(written,
                         [sock |-> ws, data |-> JSONStringify(last'.value)])
                ELSE written' = written
             /\ UNCHANGED <<ws, sockets, handlerVars, reconnectAttempts,
                            isManuallyClosed, timers>>]_vars

C11_Witness ==
    /\ last.op = "send"
    /\ ~IsConnected
    /\ [data |-> last.value, at |-> Len(sockets)] \in refused
    /\ written # <<>>
    /\ \A i \in 1..Len(written) : written[i].data # JSONStringify(last.value)

\* C12: a payload passed to send() while the connection was not open is
\* never written, also not after a later reconnect: every frame written is
\* the text of a payload whose send() call found the connection open.
C12_NoDeferredSend ==
    \A i \in 1..Len(written) :
        /\ \A r \in refused : written[i].data # JSONStringify(r.data)
        /\ \E d \in sent : written[i].data = JSONStringify(d)

C12_Witness ==
    /\ IsConnected
    /\ \E r \in refused : \E i \in 1..Len(written) : written[i].sock > r.at

\* C13: a transport error event invokes all registered error handlers,
\* schedules nothing and leaves reconnectAttempts, the manual-close flag,
\* the current handle and the handles' states unchanged; a timer is only
\* ever set by a close event.
C13_ErrorEvent ==
    /\ [][last'.op = "error"
             => /\ last'.calls = Ids(errorHandlers)
                /\ last'.scheduled = 0
                /\ UNCHANGED <<ws, sockets, reconnectAttempts,
                               isManuallyClosed, timers>>]_vars
    /\ [][Len(timers') > Len(timers) => last'.op = "close"]_vars

C13_Witness ==
    /\ last.op = "error"
    /\ Len(last.calls) >= 2
    /\ sockets[last.sock] = "CONNECTING"
    /\ reconnectAttempts >= 1
    /\ ~isManuallyClosed
    /\ timers = <<>>

\* no handle is unclosed and no timer is pending
Idle == timers = <<>> /\ \A h \in 1..Len(sockets) : sockets[h] = "CLOSED"

\* C14: when the transport constructor throws inside connect(), in the
\* constructor or in a retry, the registered error handlers are invoked,
\* nothing is scheduled, reconnectAttempts is unchanged, and the instance
\* makes no connection attempt afterwards.
C14_ConstructionThrows ==
    /\ [](last.op \in {"constructThrew", "timerThrew"}
             => /\ last.calls = Ids(errorHandlers)
                /\ last.scheduled = 0
                /\ reconnectAttempts = last.before
                /\ Idle)
    /\ [][Idle => (Idle' /\ sockets' = sockets)]_vars

C14_Witness ==
    /\ last.op = "timerThrew"
    /\ Len(last.calls) >= 1
    /\ reconnectAttempts >= 2
    /\ Len(sockets) >= 2
    /\ Idle

\* C15 (as claimed): a construction failure reaches the caller through
\* onError: when the attempt made inside the constructor has thrown (no
\* handle was ever created) and the caller has registered an error handler,
\* that handler has been invoked with the failure; a failure in a retry
\* invokes the registered error handlers.
C15_ConstructionFailureSurfaced ==
    /\ (sockets = <<>> /\ errorHandlers # <<>>)
           => \A k \in 1..Len(errorHandlers) : errorHandlers[k].id \in failureCalls
    /\ (last.op = "timerThrew" /\ errorHandlers # <<>>) => last.calls # <<>>

\* C16 (as claimed): with handlers that may throw, no exception leaves the
\* open, message, error or close callback of the client.
C16_NoEscapingException ==
    last.op \in {"open", "message", "error", "close"} => ~last.escaped

\* the text of an object whose type member names an inbound event
WellFormed(data) ==
    \E t \in TypeNames : data = <<"{", "type", ":", t, "}">>

\* C17: a well-formed frame received on an open connection is decoded and
\* handed to every registered message handler exactly once, in order; the
\* decoded event is the frame's content; the connection stays open,
\* isConnected() stays true and reconnectAttempts is unchanged.
C17_WellFormedFrameDelivered ==
    [][(last'.op = "message" /\ WellFormed(last'.data))
          => /\ last'.parsed
             /\ last'.calls = Ids(messageHandlers)
             /\ last'.value = [kind |-> "object", type |-> last'.data[4]]
             /\ JSONStringify(last'.value) = last'.data
             /\ ws' = last'.sock
             /\ IsConnected'
             /\ UNCHANGED <<ws, sockets, reconnectAttempts>>]_vars

C17_Witness ==
    /\ last.op = "message"
    /\ WellFormed(last.data)
    /\ last.value.type = "status"
    /\ Len(last.calls) >= 2
    /\ last.sock >= 2
    /\ IsConnected

\* the stream scheme a configured address is connected with
C18_Base ==
    CASE env = Address(<<"h", "t", "t", "p">>, "h") -> Address(<<"w", "s">>, "h")
      [] env = Address(<<"h", "t", "t", "p", "s">>, "h") -> Address(<<"w", "s", "s">>, "h")
      [] env = Address(<<"w", "s">>, "h") -> Address(<<"w", "s">>, "h")
      [] env = Address(<<"w", "s", "s">>, "h") -> Address(<<"w", "s", "s">>, "h")
      [] env = <<>> -> Address(<<"w", "s">>, "localhost:8000")

\* C18: every connection attempt, the initial one and every retry, targets
\* <base>/ws/compression/<jobId> for the job identifier given at
\* construction, where http://h has become ws://h, https://h has become
\* wss://h and a ws:// or wss:// base is unchanged.
C18_SameAddress ==
    /\ [](\A k \in 1..Len(targets) :
             targets[k] = C18_Base \o <<"/ws/compression/", jobId>>)
    /\ [](Len(targets) >= Len(sockets) /\ Len(targets) >= 1)
    /\ [][jobId' = jobId /\ env' = env]_vars

C18_Witness ==
    /\ env = Address(<<"h", "t", "t", "p", "s">>, "h")
    /\ jobId = "job2"
    /\ Len(sockets) >= 3
    /\ Len(targets) >= 4
    /\ targets[4] = <<"w", "s", "s", ":", "/", "/", "h", "/ws/compression/", "job2">>

\* C19: of the clients the monitor has constructed at most one has not had
\* disconnect() called on it; none had when a replacement was constructed,
\* none has once the effect has run for a cleared job, and none has after
\* the component unmounted.
C19_MonitorReleasesClient ==
    /\ Cardinality(Held(clients)) <= 1
    /\ Held(clients) \subseteq {wsRef}
    /\ \A k \in 1..Len(clients) : clients[k].heldBefore = {}
    /\ (mounted /\ effectJob = NoJob) => Held(clients) = {}
    /\ ~mounted => Held(clients) = {}

C19_Witness ==
    /\ ~mounted
    /\ Len(clients) = 3
    /\ clients[1].job # clients[2].job
    /\ clients[3].disconnects = 1
    /\ currentJob = clients[3].job

\* C20: a client that is never disconnected and whose attempts all end in a
\* close without an open eventually has no unclosed handle and no pending
\* timer, after the initial attempt and maxReconnectAttempts retries; from
\* then on it stays so, makes no further attempt, and is not connected.
C20_EventuallyQuiescent ==
    /\ <>[](/\ Idle
            /\ ~IsConnected
            /\ ~isManuallyClosed
            /\ Len(targets) = maxReconnectAttempts + 1
            /\ Len(sockets) = maxReconnectAttempts + 1)
    /\ [][Idle => (Idle' /\ ~IsConnected' /\ targets' = targets /\ sockets' = sockets)]_vars

C20_Witness ==
    /\ Idle
    /\ ~isManuallyClosed
    /\ ~everOpened
    /\ Len(sockets) = maxReconnectAttempts + 1
    /\ reconnectAttempts = maxReconnectAttempts
    /\ closeEvents = maxReconnectAttempts + 1

\* C21: after a close event with the manual-close flag unset and
\* reconnectAttempts below the ceiling, the pending timer fires and makes a
\* new connection attempt (as long as the handle bound leaves room for one);
\* when a handle created by a retry opens, it is the current handle,
\* isConnected() is true and every open handler is invoked.
C21_AutomaticRecovery ==
    /\ \A n \in 1..(MaxSockets + 1) :
          (/\ last.op = "close"
           /\ ~isManuallyClosed
           /\ last.before < maxReconnectAttempts
           /\ Len(sockets) < MaxSockets
           /\ Len(targets) = n)
             ~> (Len(targets) > n /\ last.op \in {"timer", "timerThrew"})
    /\ [][(last'.op = "open" /\ last'.sock >= 2)
             => /\ ws' = last'.sock
                /\ IsConnected'
                /\ last'.calls = Ids(openHandlers)]_vars

C21_Witness ==
    /\ last.op = "open"
    /\ last.sock >= 3
    /\ last.before = 1
    /\ Len(last.calls) >= 2
    /\ IsConnected
    /\ ~isManuallyClosed

\* the event types the claim names
C22_EventTypes == {"metrics", "status", "tensor_core_data", "benchmark_result", "error"}

\* C22 (as claimed): a message handler is only ever called with an object
\* whose type member is one of the event types; a frame that decodes to a
\* non-object, or to an object without a type or with an unknown one,
\* reaches no handler.
C22_OnlyTypedEvents ==
    (last.op = "message" /\ last.calls # <<>>)
        => (last.value.kind = "object" /\ last.value.type \in C22_EventTypes)

\* the state slices of a view, without its requests in flight
Slices(v) == [v EXCEPT !.fetches = 0]

\* The step delivers a message and changes the slice of the message's type
\* and no other, where tensorCore is the type of a tensor-core sample.
EventToSlice(tensorCore) ==
    event'.op = "message" =>
        LET m == event'.message
            k == event'.client
            v == Slices(view)
        IN  Slices(view') =
              CASE m.type = "metrics" -> [v EXCEPT !.metrics = Append(@, k)]
                [] m.type = tensorCore -> [v EXCEPT !.ttCores = Append(@, k)]
                [] m.type = "benchmark_result" ->
                      [v EXCEPT !.benchmarkResults = Append(@, k)]
                [] m.type = "error" ->
                      [v EXCEPT !.error = "message", !.isCompressing = FALSE]
                [] m.type = "status" /\ m.status = "running" ->
                      [v EXCEPT !.isCompressing = TRUE]
                [] m.type = "status" /\ m.status = "completed" ->
                      [v EXCEPT !.isCompressing = FALSE]
                [] OTHER -> v

Shown(v) ==
    <<v.metrics, v.ttCores, v.benchmarkResults, v.error, v.isCompressing,
      v.wsConnected>>

\* C24 (as claimed): an open, message, error or close event of a client the
\* monitor has disconnected changes none of the metrics, tensor-core,
\* benchmark, error, compressing and connected slices of the view.
C24_DiscardedClientSilent ==
    [][(/\ event'.op \in {"open", "message", "fail", "close"}
        /\ clients[event'.client].disconnects > 0)
          => Shown(view') = Shown(view)]_vars

\* C25 (as claimed): while the monitor is mounted and its effect has run
\* for the selected job, wsConnected is true exactly when the monitor holds
\* a client and that client's isConnected() is true.
C25_IndicatorAgrees ==
    (mounted /\ currentJob = effectJob)
        => (view.wsConnected <=> (wsRef # 0 /\ ClientIsConnected(clients[wsRef])))

\* C26 (as claimed): with close handlers that may throw, every close event
\* with the manual-close flag unset and reconnectAttempts below the ceiling
\* schedules a reconnection attempt.
C26_RaisingCloseHandlerRecovers ==
    (last.op = "close" /\ ~isManuallyClosed /\ last.before < maxReconnectAttempts)
        => (last.scheduled > 0 /\ timers # <<>>)

\* C27: reconnectAttempts stays within 0..maxReconnectAttempts; it changes
\* only by +1 in a close event with the manual-close flag unset and the
\* counter below the ceiling, and by a reset to 0 in an open event; no more
\* than maxReconnectAttempts + 1 attempts are made from the attempt that
\* opened (or from construction) up to the next open.
C27_CounterBounded ==
    /\ [](reconnectAttempts \in 0..maxReconnectAttempts)
    /\ [](attemptsSinceOpen <= maxReconnectAttempts + 1)
    /\ [][reconnectAttempts' # reconnectAttempts
            => \/ /\ last'.op = "close"
                  /\ ~isManuallyClosed
                  /\ reconnectAttempts < maxReconnectAttempts
                  /\ reconnectAttempts' = reconnectAttempts + 1
               \/ /\ last'.op = "open"
                  /\ reconnectAttempts' = 0]_vars

C27_Witness ==
    /\ everOpened
    /\ attemptsSinceOpen = maxReconnectAttempts + 1
    /\ reconnectAttempts = maxReconnectAttempts
    /\ timers = <<>>
    /\ last.op = "close"

\* C28: at most one reconnection timer is pending, and none is pending
\* while a handle of the instance is connecting or open.
C28_OneTimerNoLiveHandle ==
    /\ Len(timers) <= 1
    /\ timers # <<>> => Live = {}

C28_Witness ==
    /\ timers # <<>>
    /\ Len(sockets) >= 3
    /\ everOpened
    /\ reconnectAttempts = 2
    /\ isManuallyClosed

\* C29 (as claimed): the stored history has at most HistoryLimit entries
\* and no two of them share a jobId; right after addJobToHistory(j) the
\* entry j is first; updateJobInHistory with a jobId that is not stored
\* leaves the store unchanged.
C29_HistoryBoundedAndUnique ==
    /\ [](Len(jobHistory) <= HistoryLimit)
    /\ [](\A a, b \in 1..Len(jobHistory) :
             a # b => jobHistory[a].jobId # jobHistory[b].jobId)
    /\ [](storeLast.op = "add"
             => (jobHistory # <<>> /\ jobHistory[1].jobId = storeLast.jobId))
    /\ [][(storeLast'.op = "update" /\ storeLast'.jobId \notin StoredIds)
             => jobHistory' = jobHistory]_vars

====
